---- MODULE Spec2Model ----
(***************************************************************************)
(* Model of smartsurvey.py: SurveyService.parse, _parse_metadata and       *)
(* _parse_questions working on a row reader and a Survey.                  *)
(*                                                                         *)
(* A row is a sequence of cell strings, the reader a sequence of rows with *)
(* a read position.  Column indices are kept 0-based as in the Python      *)
(* code; Cell(row, j) reads row[j].                                        *)
(***************************************************************************)
EXTENDS Integers, Sequences, FiniteSets, TLC

VARIABLES reader, pos, entry, survey0, title, comment, questions, matrix, i, pc, err

vars == <<reader, pos, entry, survey0, title, comment, questions, matrix, i, pc, err>>

(***************************************************************************)
(* Program constants                                                       *)
(***************************************************************************)
MULTIPLE_CHOICE == "multiple choice"
CHECKBOX_LIST == "checkbox list"
DROPDOWN_FREETEXT == "dropdown with freetext other"

\* first column index of range(17, len(matrix[0]))
START == 17

\* number of rows _parse_metadata and _parse_questions each take
ROWS_TAKEN == 2

(***************************************************************************)
(* Bounds of the model                                                     *)
(***************************************************************************)
\* number of columns a row may have beyond column START
MaxTail == 3

(***************************************************************************)
(* Helpers                                                                 *)
(***************************************************************************)
Min(a, b) == IF a < b THEN a ELSE b

Last(s) == s[Len(s)]

\* row[j] with a 0-based, in-range index j
Cell(row, j) == row[j + 1]

\* take(n, iterable): the first n items, fewer when the iterable runs out
take_OneTooMany(n, s) == SubSeq(s, 1, Min(n + 1, Len(s)))

take(n, s) == SubSeq(s, 1, Min(n, Len(s)))

\* str.lower() on the cell texts of the model
Lower_Identity(s) == s

Lower(s) ==
  CASE s = "Other" -> "other"
    [] s = "A" -> "a"
    [] s = "B" -> "b"
    [] s = "Id" -> "id"
    [] OTHER -> s

\* the condition of `assert matrix[1][i].lower() == 'other'`
OtherAssertion_Stripped(c) == TRUE

OtherAssertion(c) == Lower(c) = "other"

\* SurveyQuestion() with text set and the default type of _parse_questions
NewQuestion_Checkbox(text) == [text |-> text, type |-> CHECKBOX_LIST, choices |-> <<>>]

NewQuestion(text) == [text |-> text, type |-> MULTIPLE_CHOICE, choices |-> <<>>]

\* SurveyChoice() with text set
NewChoice(text) == [text |-> text]

\* survey.questions[-1].type = t  (qs is non-empty)
SetLastType_First(qs, t) == [qs EXCEPT ![1].type = t]

SetLastType(qs, t) == [qs EXCEPT ![Len(qs)].type = t]

\* survey.questions[-1].choices.append(choice)  (qs is non-empty)
AppendChoice_Front(qs, c) == [qs EXCEPT ![Len(qs)].choices = <<c>> \o @]

AppendChoice_FirstQuestion(qs, c) == [qs EXCEPT ![1].choices = Append(@, c)]

AppendChoice(qs, c) == [qs EXCEPT ![Len(qs)].choices = Append(@, c)]

\* the end of range(17, len(matrix[0]))  (m is non-empty)
RangeEnd_OffByOne(m) == Len(m[1]) - 1

RangeEnd(m) == Len(m[1])

(***************************************************************************)
(* One iteration of the for loop of _parse_questions at column j: the      *)
(* question list it leaves and the exception it raises, if any.            *)
(***************************************************************************)
ParseColumn(m, j, qs) ==
  LET h == Cell(m[1], j)
      question_column == h # ""
      qs1 == IF question_column THEN Append(qs, NewQuestion(h)) ELSE qs
  IN  IF Len(m) < 2 \/ j >= Len(m[2])
      THEN \* matrix[1][i] is out of range
           [qs |-> qs1, err |-> "IndexError"]
      ELSE LET c == Cell(m[2], j)
           IN  IF c = ""
               THEN [qs |-> qs1, err |-> "none"]
               ELSE IF question_column
               THEN [qs |-> AppendChoice(SetLastType(qs1, CHECKBOX_LIST), NewChoice(c)),
                     err |-> "none"]
               ELSE IF qs1 = <<>>
               THEN \* survey.questions[-1] on an empty list
                    [qs |-> qs1, err |-> "IndexError"]
               ELSE IF Last(qs1).type # CHECKBOX_LIST
               THEN IF ~OtherAssertion(c)
                    THEN [qs |-> qs1, err |-> "AssertionError"]
                    ELSE [qs |-> SetLastType(qs1, DROPDOWN_FREETEXT), err |-> "none"]
               ELSE [qs |-> AppendChoice(qs1, NewChoice(c)), err |-> "none"]

(***************************************************************************)
(* Inputs                                                                  *)
(***************************************************************************)
PrefixCells == {"", "Id"}
HeaderCells == {"", "Q1", "Q2"}
ChoiceCells == {"", "A", "B", "other", "Other"}

Pad(c, n) == [k \in 1..n |-> c]

Tails(S) == UNION {[1..n -> S] : n \in 0..MaxTail}

\* the empty row, and rows of START cells p followed by up to MaxTail cells of S
RowsOver(S, p) == {<<>>} \cup {Pad(p, START) \o t : t \in Tails(S)}

\* what a classifier may find in the reader: no row, one row, two rows
Bodies(p) ==
  {<<>>} \cup {<<h>> : h \in RowsOver(HeaderCells, p)}
         \cup {<<h, c>> : h \in RowsOver(HeaderCells, p), c \in RowsOver(ChoiceCells, p)}

MetaRows0 == {<<>>, <<"Title", "x">>}
MetaRows1 == {<<>>, <<"Comment">>}

MetaBlocks ==
  {<<>>} \cup {<<r0>> : r0 \in MetaRows0}
         \cup {<<r0, r1>> : r0 \in MetaRows0, r1 \in MetaRows1}

ResponseRows == {<<>>, <<Pad("r", 2)>>}

\* the question lists a Survey may hold when it is handed in: a fresh
\* Survey(), or one an earlier parse has populated
Survey0Set ==
  { <<>>,
    <<[text |-> "P", type |-> MULTIPLE_CHOICE, choices |-> <<>>]>>,
    <<[text |-> "P", type |-> CHECKBOX_LIST, choices |-> <<[text |-> "X"]>>]>> }

(***************************************************************************)
(* Initial states                                                          *)
(***************************************************************************)
InitCommon ==
  /\ pos = 0
  /\ title = ""
  /\ comment = ""
  /\ questions = survey0
  /\ matrix = <<>>
  /\ i = 0
  /\ err = "none"

\* _parse_questions called on a reader and a Survey
InitDirect ==
  /\ entry = "direct"
  /\ \E p \in PrefixCells : reader \in Bodies(p)
  /\ survey0 \in Survey0Set
  /\ pc = "questions"
  /\ InitCommon

\* parse called on a reader and a fresh Survey()
InitParse ==
  /\ entry = "parse"
  /\ reader \in {mb \o b \o r : mb \in MetaBlocks, b \in Bodies("Id"), r \in ResponseRows}
  /\ survey0 = <<>>
  /\ pc = "parse"
  /\ InitCommon

Init == InitDirect \/ InitParse

(***************************************************************************)
(* Actions                                                                 *)
(***************************************************************************)
Remaining == SubSeq(reader, pos + 1, Len(reader))

\* _parse_metadata
ParseMetadata ==
  /\ pc = "parse"
  /\ LET m == take(ROWS_TAKEN, Remaining)
     IN  /\ pos' = pos + Len(m)
         /\ IF Len(m) < 1 \/ Len(m[1]) < 1
            THEN \* matrix[0][0] is out of range
                 /\ pc' = "failed"
                 /\ err' = "IndexError"
                 /\ UNCHANGED <<title, comment>>
            ELSE /\ title' = Cell(m[1], 0)
                 /\ IF Len(m) < 2 \/ Len(m[2]) < 1
                    THEN \* matrix[1][0] is out of range
                         /\ pc' = "failed"
                         /\ err' = "IndexError"
                         /\ UNCHANGED comment
                    ELSE /\ comment' = Cell(m[2], 0)
                         /\ pc' = "questions"
                         /\ UNCHANGED err
  /\ UNCHANGED <<reader, entry, survey0, questions, matrix, i>>

\* _parse_questions up to the evaluation of range(17, len(matrix[0]))
TakeRows ==
  /\ pc = "questions"
  /\ LET m == take(ROWS_TAKEN, Remaining)
     IN  /\ pos' = pos + Len(m)
         /\ matrix' = m
         /\ IF Len(m) < 1
            THEN \* matrix[0] is out of range
                 /\ pc' = "failed"
                 /\ err' = "IndexError"
                 /\ UNCHANGED i
            ELSE /\ pc' = "loop"
                 /\ i' = START
                 /\ UNCHANGED err
  /\ UNCHANGED <<reader, entry, survey0, title, comment, questions>>

\* one iteration of the for loop
Column ==
  /\ pc = "loop"
  /\ i < RangeEnd(matrix)
  /\ LET r == ParseColumn(matrix, i, questions)
     IN  /\ questions' = r.qs
         /\ err' = r.err
         /\ IF r.err = "none"
            THEN pc' = "loop" /\ i' = i + 1
            ELSE pc' = "failed" /\ UNCHANGED i
  /\ UNCHANGED <<reader, pos, entry, survey0, title, comment, matrix>>

\* the range is exhausted: _parse_questions returns
LoopExit ==
  /\ pc = "loop"
  /\ i >= RangeEnd(matrix)
  /\ pc' = "done"
  /\ UNCHANGED <<reader, pos, entry, survey0, title, comment, questions, matrix, i, err>>

Next == ParseMetadata \/ TakeRows \/ Column \/ LoopExit

Spec == Init /\ [][Next]_vars

(***************************************************************************)
(* Vocabulary of the properties                                            *)
(***************************************************************************)
\* the classifier's header row and choice row, once both have been taken
Header == matrix[1]
ChoiceRow == matrix[2]

TwoRows == Len(matrix) = 2

EqualLength == TwoRows /\ Len(Header) = Len(ChoiceRow)

\* the spellings of the "other" marker among the cell texts of the model
OtherSpellings == {"other", "Other"}

\* number of non-empty cells of row at column indices from..Len(row)-1
NonEmptyFrom(row, from) == Cardinality({j \in from..(Len(row) - 1) : Cell(row, j) # ""})

\* column j holds a header cell: it starts a question (an anchor column)
IsAnchor(j) == j < Len(Header) /\ Cell(Header, j) # ""

\* index in survey.questions of the question started by anchor column j
QIndex(j) == Len(survey0) + Cardinality({k \in 17..j : IsAnchor(k)})

\* first column after the span of anchor column j
SpanEnd(j) ==
  LET later == {k \in (j + 1)..(Len(Header) - 1) : IsAnchor(k)}
  IN  IF later = {} THEN Len(Header) ELSE CHOOSE k \in later : \A l \in later : k <= l

\* the non-empty choice cells of columns from..to-1, left to right
RECURSIVE CellsOf(_, _)
CellsOf(from, to) ==
  IF from >= to THEN <<>>
  ELSE (IF Cell(ChoiceRow, from) # "" THEN <<[text |-> Cell(ChoiceRow, from)]>> ELSE <<>>)
       \o CellsOf(from + 1, to)

\* the anchor columns the loop has gone through / all of them
AnchorsBelow(n) == {j \in 17..(n - 1) : IsAnchor(j)}

\* the texts of the questions, in list order
Texts(qs) == [k \in 1..Len(qs) |-> qs[k].text]

RECURSIVE HeaderTexts(_, _)
HeaderTexts(from, to) ==
  IF from >= to THEN <<>>
  ELSE (IF Cell(Header, from) # "" THEN <<Cell(Header, from)>> ELSE <<>>)
       \o HeaderTexts(from + 1, to)

Finished == pc \in {"done", "failed"}

(***************************************************************************)
(* C1                                                                      *)
(***************************************************************************)
\* C1 as stated: for header and choice rows of equal length and a Survey
\* with an empty question list, _parse_questions ends with as many
\* questions as the header row has non-empty cells.
C1_CountAllHeaderCells ==
  (Finished /\ EqualLength /\ survey0 = <<>>)
    => Len(questions) = NonEmptyFrom(Header, 0)

\* C1 amended: for header and choice rows of equal length and a Survey with
\* an empty question list, when _parse_questions completes the number of
\* questions equals the number of non-empty header cells at column index 17
\* or higher.
C1_CountFromColumn17 ==
  (pc = "done" /\ EqualLength /\ survey0 = <<>>)
    => Len(questions) = NonEmptyFrom(Header, 17)

C1_Witness ==
  /\ pc = "done" /\ EqualLength /\ survey0 = <<>>
  /\ Len(questions) = 2
  /\ NonEmptyFrom(Header, 0) > 2

(***************************************************************************)
(* C2                                                                      *)
(***************************************************************************)
\* C2 as stated: on completion, every processed column whose header cell
\* and choice cell are both non-empty has given a CHECKBOX_LIST question
\* whose final choice list is exactly the one entry of that choice cell.
C2_FinalSingleChoice ==
  pc = "done" =>
    \A j \in AnchorsBelow(i) :
      Cell(ChoiceRow, j) # "" =>
        /\ questions[QIndex(j)].type = CHECKBOX_LIST
        /\ questions[QIndex(j)].choices = <<[text |-> Cell(ChoiceRow, j)]>>

\* C2 amended: every processed column whose header cell and choice cell are
\* both non-empty gives a CHECKBOX_LIST question whose choice list is
\* exactly the one entry of that choice cell right after the column; the
\* list keeps that entry first, and on completion it is that entry followed
\* by the non-empty choice cells of the later columns of the question's span.
C2_FirstChoice ==
  pc \in {"loop", "done", "failed"} =>
    \A j \in AnchorsBelow(i) :
      Cell(ChoiceRow, j) # "" =>
        LET q == questions[QIndex(j)]
        IN  /\ q.type = CHECKBOX_LIST
            /\ Len(q.choices) >= 1
            /\ q.choices[1] = [text |-> Cell(ChoiceRow, j)]
            /\ (j = i - 1 => Len(q.choices) = 1)
            /\ (pc = "done" => q.choices = CellsOf(j, SpanEnd(j)))

C2_Witness ==
  /\ pc = "done"
  /\ \E j \in AnchorsBelow(i) :
       /\ Cell(ChoiceRow, j) # ""
       /\ Len(questions[QIndex(j)].choices) = 2

(***************************************************************************)
(* C3                                                                      *)
(***************************************************************************)
\* C3 as stated: on completion, a question started by a column with a
\* non-empty header cell and an empty choice cell is MULTIPLE_CHOICE, or
\* CHECKBOX_LIST (which only a later column of its span could have set).
C3_MultipleChoiceOrCheckbox ==
  pc = "done" =>
    \A j \in AnchorsBelow(i) :
      Cell(ChoiceRow, j) = "" =>
        questions[QIndex(j)].type \in {MULTIPLE_CHOICE, CHECKBOX_LIST}

\* C3 amended: on completion, a question started by a column with a
\* non-empty header cell and an empty choice cell is MULTIPLE_CHOICE when
\* every choice cell of its span is empty; otherwise the non-empty choice
\* cells of its span all spell "other" and it is DROPDOWN_FREETEXT.  It is
\* never CHECKBOX_LIST.
C3_MultipleChoiceOrDropdown ==
  pc = "done" =>
    \A j \in AnchorsBelow(i) :
      Cell(ChoiceRow, j) = "" =>
        LET cells == CellsOf(j, SpanEnd(j))
        IN  IF cells = <<>>
            THEN questions[QIndex(j)].type = MULTIPLE_CHOICE
            ELSE /\ questions[QIndex(j)].type = DROPDOWN_FREETEXT
                 /\ \A k \in 1..Len(cells) : cells[k].text \in OtherSpellings

C3_Witness ==
  /\ pc = "done"
  /\ \E j, k \in AnchorsBelow(i) :
       /\ Cell(ChoiceRow, j) = "" /\ Cell(ChoiceRow, k) = ""
       /\ questions[QIndex(j)].type = MULTIPLE_CHOICE
       /\ questions[QIndex(k)].type = DROPDOWN_FREETEXT

(***************************************************************************)
(* C4                                                                      *)
(***************************************************************************)
\* the loop is about to process column i, which has both of its cells
AtColumn == pc = "loop" /\ TwoRows /\ i < Len(Header) /\ i < Len(ChoiceRow)

\* C4: a column with an empty header cell and a choice cell spelling
\* "other", right after the anchor column of a question that is
\* MULTIPLE_CHOICE, turns that question into DROPDOWN_FREETEXT and leaves
\* every choice list as it was.
C4_OtherMakesDropdown ==
  [][ ( /\ AtColumn
        /\ Cell(Header, i) = ""
        /\ Cell(ChoiceRow, i) \in OtherSpellings
        /\ i - 1 >= 17 /\ IsAnchor(i - 1)
        /\ Last(questions).type = MULTIPLE_CHOICE )
      => ( /\ pc' = "loop" /\ i' = i + 1 /\ err' = "none"
           /\ Len(questions') = Len(questions)
           /\ Last(questions').type = DROPDOWN_FREETEXT
           /\ \A k \in 1..Len(questions) :
                /\ questions'[k].choices = questions[k].choices
                /\ questions'[k].text = questions[k].text
                /\ (k < Len(questions) => questions'[k].type = questions[k].type) )
    ]_vars

C4_Witness ==
  /\ pc \in {"loop", "done"} /\ TwoRows
  /\ i >= 17 + 2 /\ i <= Len(Header) /\ i <= Len(ChoiceRow)
  /\ IsAnchor(i - 2) /\ Cell(ChoiceRow, i - 2) = ""
  /\ Cell(Header, i - 1) = "" /\ Cell(ChoiceRow, i - 1) = "Other"
  /\ Last(questions).type = DROPDOWN_FREETEXT
  /\ Last(questions).choices = <<>>

(***************************************************************************)
(* C5                                                                      *)
(***************************************************************************)
\* C5: a column with an empty header cell and a non-empty choice cell that
\* does not spell "other", met while the last question is not
\* CHECKBOX_LIST, makes the classification fail on the assertion (the
\* code's UnexpectedChoiceCell report) with the question list untouched.
C5_UnexpectedChoiceCell ==
  [][ ( /\ AtColumn
        /\ Cell(Header, i) = ""
        /\ Cell(ChoiceRow, i) # ""
        /\ Cell(ChoiceRow, i) \notin OtherSpellings
        /\ questions # <<>>
        /\ Last(questions).type # CHECKBOX_LIST )
      => ( /\ pc' = "failed"
           /\ err' = "AssertionError"
           /\ questions' = questions )
    ]_vars

C5_Witness ==
  /\ pc = "failed" /\ err = "AssertionError" /\ TwoRows
  /\ i < Len(Header) /\ i < Len(ChoiceRow)
  /\ Cell(Header, i) = "" /\ Cell(ChoiceRow, i) \in {"A", "B"}
  /\ questions # <<>> /\ Last(questions).type # CHECKBOX_LIST

(***************************************************************************)
(* C6                                                                      *)
(***************************************************************************)
\* C6: on a Survey with an empty question list, a column with an empty
\* header cell and a non-empty choice cell met before any question has been
\* appended makes the classification fail with NoCurrentQuestion, not with
\* an out-of-range access.
C6_NoCurrentQuestion ==
  [][ ( /\ AtColumn
        /\ survey0 = <<>>
        /\ questions = <<>>
        /\ Cell(Header, i) = ""
        /\ Cell(ChoiceRow, i) # "" )
      => ( pc' = "failed" /\ err' = "NoCurrentQuestion" )
    ]_vars

(***************************************************************************)
(* C7                                                                      *)
(***************************************************************************)
\* the classifier has taken its rows and they are not two rows of one length
Malformed == pc \in {"loop", "done", "failed"} /\ entry = "direct" /\ ~EqualLength

\* C7: a classifier input of fewer than two rows, or of two rows of
\* different lengths, ends in a MalformedHeader failure: it never completes
\* and never fails with another error.
C7_MalformedHeader ==
  (Malformed /\ Finished) => (pc = "failed" /\ err = "MalformedHeader")

(***************************************************************************)
(* C8                                                                      *)
(***************************************************************************)
\* the questions this run appended, in list order
Appended == SubSeq(questions, Len(survey0) + 1, Len(questions))

\* on completion the appended questions are the anchor columns left to
\* right, each with the stored choice cells of its own span left to right
OrderedByColumn ==
  /\ Texts(Appended) = HeaderTexts(17, Len(Header))
  /\ \A j \in AnchorsBelow(Len(Header)) :
       questions[QIndex(j)].choices =
         IF Cell(ChoiceRow, j) # "" THEN CellsOf(j, SpanEnd(j)) ELSE <<>>

\* no choice went to a question without an anchor column in this input
NoUnanchoredChoice == SubSeq(questions, 1, Len(survey0)) = survey0

C9_RowsConsumed ==
  (entry = "parse" /\ Len(reader) >= 4) =>
    /\ pos <= 4
    /\ (title # "" => title = Cell(reader[1], 0))
    /\ (comment # "" => comment = Cell(reader[2], 0))
    /\ (pc \in {"questions", "loop", "done"} =>
          /\ title = Cell(reader[1], 0)
          /\ comment = Cell(reader[2], 0))
    /\ (pc = "questions" => pos = 2 /\ matrix = <<>>)
    /\ (pc \in {"loop", "done"} => pos = 4 /\ matrix = <<reader[3], reader[4]>>)
    /\ (matrix # <<>> => matrix = <<reader[3], reader[4]>>)

C9_Witness ==
  /\ entry = "parse" /\ Len(reader) = 5
  /\ pc = "done" /\ pos = 4
  /\ title = "Title" /\ comment = "Comment"
  /\ Len(questions) >= 1

(***************************************************************************)
(* C10                                                                     *)
(***************************************************************************)
ChoicesIffCheckbox ==
  \A k \in 1..Len(questions) :
    (questions[k].choices # <<>>) <=> (questions[k].type = CHECKBOX_LIST)

TypeSettled ==
  \A k \in 1..Len(questions) :
    questions[k].type \in {CHECKBOX_LIST, DROPDOWN_FREETEXT} =>
      /\ k <= Len(questions')
      /\ questions'[k].type = questions[k].type

\* C10: started on a Survey with an empty question list, after every column
\* and in every final or failed state a question has choices exactly when it
\* is CHECKBOX_LIST, and a type that is CHECKBOX_LIST or DROPDOWN_FREETEXT
\* never changes.
C10_ChoicesIffCheckbox ==
  /\ [](survey0 = <<>> => ChoicesIffCheckbox)
  /\ [][survey0 = <<>> => TypeSettled]_vars

C10_Witness ==
  /\ survey0 = <<>> /\ pc = "done"
  /\ \E a, b \in 1..Len(questions) :
       /\ questions[a].type = CHECKBOX_LIST /\ questions[a].choices # <<>>
       /\ questions[b].type = DROPDOWN_FREETEXT /\ questions[b].choices = <<>>

====
